---- MODULE Spec2Model ----
(***************************************************************************)
(* skbio.io.util: _get_filehandle, open_file and open_files.               *)
(*                                                                         *)
(* The heap of stream objects is `streams`; the identity of a stream is    *)
(* its address.  The first NumHandles addresses hold the caller's          *)
(* pre-opened handles; every call site that can create a stream (the scope *)
(* of an open_file, the position of an element of open_files) has an       *)
(* address of its own, free until the stream is created.  Each stream      *)
(* counts the close() calls the component made on it.  Every with-scope    *)
(* over open_file is a slot of `file`; the (single) with-scope over         *)
(* open_files is `files`.  The interpreter the module runs under (the code *)
(* supports Python 2 and 3 through future/six) is `py`.                    *)
(***************************************************************************)
EXTENDS Integers, Sequences, FiniteSets, TLC

VARIABLES py, streams, file, files

vars == <<py, streams, file, files>>

\* Bounds of the model.
NumScopes == 2
MaxListLen == 3
NumHandles == 1

Scopes == 1..NumScopes
Handles == 1..NumHandles

\* Addresses: the handles, then one per open_file scope, then one per
\* position of the list of open_files.
Addresses == 1..(NumHandles + NumScopes + MaxListLen)
FileSite(s) == NumHandles + s
FilesSite(i) == NumHandles + NumScopes + i

(***************************************************************************)
(* Values handed to the component.  A text or byte string is a sequence of *)
(* tokens (scheme, ":", rest) or a bare path; a pre-opened stream is the   *)
(* identity h of a stream of the heap.                                     *)
(***************************************************************************)
Contents ==
    { <<"data.txt">>, <<"http", ":", "//host/f">>, <<"https", ":", "//host/f">> }

Strings == [type : {"str", "bytes"}, val : Contents, h : {0}]

StreamArgs == [type : {"stream"}, val : {<< >>}, h : Handles]

Inputs == Strings \cup StreamArgs

\* The inputs of callers that hand over their own streams, next to one path
\* the component opens itself.
HandleInputs == StreamArgs \cup [type : {"str"}, val : {<<"data.txt">>}, h : {0}]

NoArg == [type |-> "none", val |-> << >>, h |-> 0]

\* What open() and the HTTP session do on one call: the file can be opened
\* or not, the request is transported or not, the response carries a status.
AllOk == [openOk |-> TRUE, sendOk |-> TRUE, status |-> 200]

Envs ==
    { AllOk,
      [openOk |-> FALSE, sendOk |-> TRUE, status |-> 200],
      [openOk |-> TRUE, sendOk |-> FALSE, status |-> 200],
      [openOk |-> TRUE, sendOk |-> TRUE, status |-> 404] }

\* ---------------------------------------------------------------- helpers

\* isinstance(s, str) or isinstance(s, bytes)
IsStringOrBytes(s) == s.type = "str" \/ s.type = "bytes"

\* requests.compat.urlparse(x).scheme: the part before the first ":", of
\* the same string type as x (bytes in, bytes out).
UrlScheme(x) ==
    [type |-> x.type,
     val |-> IF Len(x.val) >= 2 /\ x.val[2] = ":" THEN x.val[1] ELSE ""]

\* A string literal of the source: text on Python 3, a native (byte) string
\* on Python 2.
Literal(v) == [type |-> IF py = 3 THEN "str" ELSE "bytes", val |-> v]

\* Python's == (and hash) on strings: Python 3 never equates bytes with
\* text; Python 2 equates an ASCII byte string with the equal unicode.
PyEq(a, b) == a.val = b.val /\ (py = 3 => a.type = b.type)

\* urlparse(filepath_or).scheme in {'http', 'https'}
SchemeIsHttp(filepath_or) ==
    \E lit \in {Literal("http"), Literal("https")} :
        PyEq(UrlScheme(filepath_or), lit)

\* Mutant: the status of the response is never looked at.
RaisesForStatusNever(status) == FALSE

\* req.raise_for_status(): raises for 4xx and 5xx
RaisesForStatus(status) == status >= 400 /\ status < 600

\* A stream object: a caller's handle, or one the component created from
\* filepath_or with open() ("file") or BytesIO(req.content) ("BytesIO").
NewStream(kind, filepath_or) ==
    [kind |-> kind, src |-> filepath_or, closed |-> FALSE, closes |-> 0]

\* An address that holds no object (yet).
Free == NewStream("free", NoArg)

\* Mutant: close releases every stream opened from the same path or URL.
CloseStreamByPath(heap, fh) ==
    [id \in DOMAIN heap |->
        IF heap[id].kind # "free" /\ heap[id].src = heap[fh].src
        THEN [heap[id] EXCEPT !.closed = TRUE, !.closes = @ + 1]
        ELSE heap[id]]

\* fh.close(): the stream is marked closed (also when close then raises).
CloseStream(heap, fh) ==
    [heap EXCEPT ![fh].closed = TRUE, ![fh].closes = @ + 1]

\* The result of one call of _get_filehandle: the exception raised or the
\* returned pair (fh, own_fh), the heap afterwards, and the number of
\* open()/GET calls made.
Raised(e, heap) == [exc |-> e, ret |-> <<0, FALSE>>, heap |-> heap, io |-> 1]

Returned(fh, own_fh, heap, io) ==
    [exc |-> "none", ret |-> <<fh, own_fh>>, heap |-> heap, io |-> io]

\* Mutant: the stream the component creates is not recorded as its own.
OpenedNotOwned(kind, filepath_or, heap, at) ==
    Returned(at, FALSE, [heap EXCEPT ![at] = NewStream(kind, filepath_or)], 1)

\* fh, own_fh = BytesIO(req.content), True  and
\* fh, own_fh = open(filepath_or, *args, **kwargs), True: a new stream object,
\* created at the address `at` of the calling site.
Opened(kind, filepath_or, heap, at) ==
    Returned(at, TRUE, [heap EXCEPT ![at] = NewStream(kind, filepath_or)], 1)

\* Mutant: the caller's stream is taken over.
PassThroughOwned(filepath_or, heap) == Returned(filepath_or.h, TRUE, heap, 0)

\* fh, own_fh = filepath_or, False: the very object that was passed in.
PassThrough(filepath_or, heap) == Returned(filepath_or.h, FALSE, heap, 0)

GetFilehandle(filepath_or, env, heap, at) ==
    IF IsStringOrBytes(filepath_or)
    THEN IF SchemeIsHttp(filepath_or)
         THEN IF ~env.sendOk
              THEN Raised("ConnectionError", heap)
              ELSE IF RaisesForStatus(env.status)
                   THEN Raised("HTTPError", heap)
                   ELSE Opened("BytesIO", filepath_or, heap, at)
         ELSE IF ~env.openOk
              THEN Raised("IOError", heap)
              ELSE Opened("file", filepath_or, heap, at)
    ELSE PassThrough(filepath_or, heap)

\* ------------------------------------------------------------------ state

IdleFile ==
    [pc |-> "idle", filepath_or |-> NoArg, fh |-> 0, own_fh |-> FALSE,
     yielded |-> FALSE, bodyRan |-> FALSE, bodyExc |-> "none",
     closeExc |-> "none", exc |-> "none", attempts |-> 0]

IdleFiles ==
    [pc |-> "idle", fp_list |-> << >>, pairs |-> << >>, fhs |-> << >>,
     owns |-> << >>, closeLog |-> << >>, yielded |-> FALSE, bodyRan |-> FALSE,
     bodyExc |-> "none", closeExc |-> "none", exc |-> "none", attempts |-> 0]

Init ==
    /\ py \in {2, 3}
    /\ streams = [a \in Addresses |->
                      IF a \in Handles THEN NewStream("handle", NoArg) ELSE Free]
    /\ file = [s \in Scopes |-> IdleFile]
    /\ files = IdleFiles

\* -------------------------------------------------------------- open_file

\* open_file(filepath_or), filepath_or drawn from args: @contextmanager
\* returns the context manager; the function body has not started.
OpenFileCall(s, args) ==
    /\ file[s].pc = "idle"
    /\ \E filepath_or \in args :
         file' = [file EXCEPT ![s].pc = "called", ![s].filepath_or = filepath_or]
    /\ UNCHANGED <<py, streams, files>>

\* Entering the with statement runs the body of open_file up to the yield,
\* or to the exception of _get_filehandle, which leaves the with statement
\* without running its body.
OpenFileEnter(s) ==
    /\ file[s].pc = "called"
    /\ \E env \in Envs :
         LET r == GetFilehandle(file[s].filepath_or, env, streams, FileSite(s)) IN
         /\ streams' = r.heap
         /\ file' = [file EXCEPT ![s] =
              IF r.exc # "none"
              THEN [@ EXCEPT !.pc = "done", !.exc = r.exc, !.attempts = @ + r.io]
              ELSE [@ EXCEPT !.pc = "body", !.fh = r.ret[1], !.own_fh = r.ret[2],
                             !.yielded = TRUE, !.attempts = @ + r.io]]
    /\ UNCHANGED <<py, files>>

\* The caller's with-body: it returns normally or raises.
OpenFileBody(s) ==
    /\ file[s].pc = "body"
    /\ \E e \in {"none", "BodyError"} :
         file' = [file EXCEPT ![s].pc = "exit", ![s].bodyRan = TRUE, ![s].bodyExc = e]
    /\ UNCHANGED <<py, streams, files>>

\* Mutant: the close is not in a finally block, so a body that raises skips it.
OpenFileExitNoFinally(s) ==
    /\ file[s].pc = "exit"
    /\ IF file[s].own_fh /\ file[s].bodyExc = "none"
       THEN \E ce \in {"none", "CloseError"} :
              /\ streams' = CloseStream(streams, file[s].fh)
              /\ file' = [file EXCEPT ![s].pc = "done", ![s].closeExc = ce,
                            ![s].exc = ce]
       ELSE /\ file' = [file EXCEPT ![s].pc = "done", ![s].exc = file[s].bodyExc]
            /\ UNCHANGED streams
    /\ UNCHANGED <<py, files>>

\* The finally block: close fh when owned; close may itself raise, and then
\* that exception is the one that leaves the with statement.
OpenFileExit(s) ==
    /\ file[s].pc = "exit"
    /\ IF file[s].own_fh
       THEN \E ce \in {"none", "CloseError"} :
              /\ streams' = CloseStream(streams, file[s].fh)
              /\ file' = [file EXCEPT ![s].pc = "done", ![s].closeExc = ce,
                            ![s].exc = IF ce # "none" THEN ce ELSE file[s].bodyExc]
       ELSE /\ file' = [file EXCEPT ![s].pc = "done", ![s].exc = file[s].bodyExc]
            /\ UNCHANGED streams
    /\ UNCHANGED <<py, files>>

OpenFileNext(s, args) ==
    OpenFileCall(s, args) \/ OpenFileEnter(s) \/ OpenFileBody(s) \/ OpenFileExit(s)

Next == \E s \in Scopes : OpenFileNext(s, Inputs)

Spec == Init /\ [][Next]_vars

\* ------------------------------------------------------------- open_files

\* [_get_filehandle(f, *args, **kwargs) for f in fp_list]: the elements are
\* resolved in order from element i on; the first exception ends the
\* comprehension, and the streams opened so far stay as they are.
RECURSIVE ResolveAll(_, _, _, _)
ResolveAll(fp_list, envs, i, acc) ==
    IF i > Len(fp_list) \/ acc.exc # "none"
    THEN acc
    ELSE LET r == GetFilehandle(fp_list[i], envs[i], acc.heap, FilesSite(i)) IN
         ResolveAll(fp_list, envs, i + 1,
                    [pairs |-> IF r.exc = "none" THEN Append(acc.pairs, r.ret)
                               ELSE acc.pairs,
                     heap |-> r.heap, exc |-> r.exc, io |-> acc.io + r.io])

\* Mutant: the arguments are taken in reverse order.
ZipReversed(args) ==
    IF args = << >>
    THEN << >>
    ELSE [j \in 1..Len(args[1]) |-> [i \in 1..Len(args) |-> args[Len(args) + 1 - i][j]]]

\* zip(*args): the j-th result collects the j-th component of every argument;
\* with no argument there is no result at all.
Zip(args) ==
    IF args = << >>
    THEN << >>
    ELSE [j \in 1..Len(args[1]) |-> [i \in 1..Len(args) |-> args[i][j]]]

\* open_files(fp_list), the elements of fp_list drawn from args: the context
\* manager is created, nothing has run.
OpenFilesCall(args) ==
    /\ files.pc = "idle"
    /\ \E n \in 0..MaxListLen :
       \E fp_list \in [1..n -> args] :
         files' = [files EXCEPT !.pc = "called", !.fp_list = fp_list]
    /\ UNCHANGED <<py, streams, file>>

\* Entering the with statement runs the body of open_files up to the yield.
\* `fhs, owns = zip(...)` unpacks exactly two values and raises ValueError
\* otherwise.  Of the environments of the calls only the first failing one
\* matters: call k sees env, every other call succeeds.
OpenFilesEnter ==
    /\ files.pc = "called"
    /\ \E k \in 0..Len(files.fp_list), env \in Envs :
         LET fp_list == files.fp_list
             envs == [i \in 1..Len(fp_list) |-> IF i = k THEN env ELSE AllOk]
             r == ResolveAll(fp_list, envs, 1,
                             [pairs |-> << >>, heap |-> streams, exc |-> "none", io |-> 0])
             z == Zip(r.pairs)
         IN
         /\ streams' = r.heap
         /\ files' =
              IF r.exc # "none"
              THEN [files EXCEPT !.pc = "done", !.pairs = r.pairs,
                                 !.exc = r.exc, !.attempts = r.io]
              ELSE IF Len(z) # 2
              THEN [files EXCEPT !.pc = "done", !.pairs = r.pairs,
                                 !.exc = "ValueError", !.attempts = r.io]
              ELSE [files EXCEPT !.pc = "body", !.pairs = r.pairs, !.fhs = z[1],
                                 !.owns = z[2], !.yielded = TRUE, !.attempts = r.io]
    /\ UNCHANGED <<py, file>>

\* The caller's with-body: it returns normally or raises.
OpenFilesBody ==
    /\ files.pc = "body"
    /\ \E e \in {"none", "BodyError"} :
         files' = [files EXCEPT !.pc = "exit", !.bodyRan = TRUE, !.bodyExc = e]
    /\ UNCHANGED <<py, streams, file>>

\* for fh, is_own in zip(fhs, owns): if is_own: fh.close() -- from pair i on.
\* The close of pair failAt raises and ends the loop.
RECURSIVE CloseAll(_, _, _, _, _)
CloseAll(fhs, owns, failAt, i, acc) ==
    IF i > Len(fhs) \/ i > Len(owns) \/ acc.exc # "none"
    THEN acc
    ELSE IF owns[i]
    THEN CloseAll(fhs, owns, failAt, i + 1,
                  [heap |-> CloseStream(acc.heap, fhs[i]),
                   log |-> Append(acc.log, fhs[i]),
                   exc |-> IF i = failAt THEN "CloseError" ELSE "none"])
    ELSE CloseAll(fhs, owns, failAt, i + 1, acc)

\* The finally block of open_files.
OpenFilesExit ==
    /\ files.pc = "exit"
    /\ \E failAt \in 0..Len(files.fhs) :
         LET r == CloseAll(files.fhs, files.owns, failAt, 1,
                           [heap |-> streams, log |-> << >>, exc |-> "none"])
         IN
         /\ streams' = r.heap
         /\ files' = [files EXCEPT !.pc = "done", !.closeLog = r.log,
                        !.closeExc = r.exc,
                        !.exc = IF r.exc # "none" THEN r.exc ELSE files.bodyExc]
    /\ UNCHANGED <<py, file>>

OpenFilesNext(args) ==
    OpenFilesCall(args) \/ OpenFilesEnter \/ OpenFilesBody \/ OpenFilesExit

\* One open_files scope.
NextFiles == OpenFilesNext(Inputs)

SpecFiles == Init /\ [][NextFiles]_vars

\* One open_files scope and one open_file scope, nested or interleaved in any
\* way, of callers that hand over their own streams.
NextHandles == OpenFilesNext(HandleInputs) \/ OpenFileNext(1, HandleInputs)

SpecHandles == Init /\ [][NextHandles]_vars

\* ----------------------------------------------------------------- claims

OpenErrors == {"IOError", "ConnectionError", "HTTPError"}

\* The content of a string is an http:// or https:// URL.
IsHttpUrl(x) == Len(x.val) >= 2 /\ x.val[2] = ":" /\ x.val[1] \in {"http", "https"}

IsString(x) == x.type \in {"str", "bytes"}

\* The scope of open_file slot s was entered with a string that opened.
OwnedScope(s) == file[s].yielded /\ IsString(file[s].filepath_or)

\* C1 as stated: when a scope of open_file over a string that opened has been
\* left, the yielded stream is closed, close was called on it exactly once,
\* and an exception of the body is the one that reaches the caller.
C1_BodyExceptionAlwaysPropagates ==
    \A s \in Scopes :
        (file[s].pc = "done" /\ OwnedScope(s)) =>
            /\ streams[file[s].fh].closed
            /\ streams[file[s].fh].closes = 1
            /\ (file[s].bodyExc # "none" => file[s].exc = file[s].bodyExc)

\* C1 amended: when a scope of open_file over a string that opened has been
\* left, normally or by an exception of the body, the yielded stream is
\* closed and close was called on it exactly once (and not before the exit);
\* an exception of the body reaches the caller unless the close itself
\* raised, and then the exception of the close reaches the caller.
C1_ClosedOnceOnEveryExit ==
    \A s \in Scopes :
        /\ (file[s].pc \in {"body", "exit"} /\ OwnedScope(s)) =>
               streams[file[s].fh].closes = 0
        /\ (file[s].pc = "done" /\ OwnedScope(s)) =>
               /\ streams[file[s].fh].closed
               /\ streams[file[s].fh].closes = 1
               /\ file[s].exc = IF file[s].closeExc # "none" THEN file[s].closeExc
                                ELSE file[s].bodyExc

C1_Witness ==
    \E s \in Scopes :
        /\ file[s].pc = "done" /\ OwnedScope(s)
        /\ file[s].bodyExc = "BodyError" /\ file[s].closeExc = "none"
        /\ file[s].exc = "BodyError"
        /\ streams[file[s].fh].closed

\* C2: a pre-opened stream handed to open_file or open_files reaches the scope
\* as that very object, is not owned, and the component never closes or
\* changes it: it is after the scope what it was before, however the body ends.
C2_HandlesPassUntouched ==
    /\ \A h \in Handles :
           streams[h] = [kind |-> "handle", src |-> NoArg, closed |-> FALSE, closes |-> 0]
    /\ \A s \in Scopes :
           (file[s].yielded /\ file[s].filepath_or.type = "stream") =>
               file[s].fh = file[s].filepath_or.h /\ ~file[s].own_fh
    /\ files.yielded =>
           \A i \in DOMAIN files.fp_list :
               files.fp_list[i].type = "stream" =>
                   files.fhs[i] = files.fp_list[i].h /\ ~files.owns[i]

C2_Witness ==
    /\ file[1].pc = "done" /\ file[1].yielded
    /\ file[1].filepath_or.type = "stream" /\ file[1].bodyExc = "BodyError"
    /\ files.pc = "done" /\ files.yielded /\ files.bodyExc = "BodyError"
    /\ \E i, j \in DOMAIN files.fp_list :
           /\ files.fp_list[i].type = "stream"
           /\ files.owns[j] /\ streams[files.fhs[j]].closed
    /\ \A h \in Handles : ~streams[h].closed

\* The streams of the yielded sequence that are owned, in input order.
RECURSIVE OwnedOf(_, _)
OwnedOf(fhs, owns) ==
    IF fhs = << >>
    THEN << >>
    ELSE (IF Head(owns) THEN <<Head(fhs)>> ELSE << >>) \o OwnedOf(Tail(fhs), Tail(owns))

\* C3 as stated: once the scope of open_files was entered, on every exit
\* (body returns, body raises, a close raises) every owned stream of the
\* yielded sequence is closed, no stream that is not owned is closed, and the
\* streams were closed in input order.
C3_EveryOwnedStreamClosed ==
    (files.pc = "done" /\ files.yielded) =>
        /\ \A i \in DOMAIN files.fhs :
               /\ files.owns[i] => streams[files.fhs[i]].closed
               /\ ~files.owns[i] => streams[files.fhs[i]].closes = 0
        /\ files.closeLog = OwnedOf(files.fhs, files.owns)

\* C4 as stated: when resolving an element of the list fails, every stream
\* opened for the elements before it is closed when the failure reaches the
\* caller.
C4_PartialFailureReleases ==
    (files.pc = "done" /\ ~files.yielded /\ files.exc \in OpenErrors) =>
        \A i \in DOMAIN files.pairs :
            files.pairs[i][2] => streams[files.pairs[i][1]].closed

\* C5: open_files over a non-empty list whose elements all resolve yields as
\* many streams as inputs; the i-th stream was opened from the i-th input, is
\* a stream of its own for every occurrence of a repeated path, and is the
\* caller's object where the i-th input is a pre-opened handle.
C5_PositionForPosition ==
    /\ (files.pc = "done" /\ ~files.yielded /\ files.fp_list # << >>) =>
           files.exc \in OpenErrors
    /\ files.yielded =>
           /\ Len(files.fhs) = Len(files.fp_list)
           /\ \A i \in DOMAIN files.fp_list :
                  IF IsString(files.fp_list[i])
                  THEN /\ files.fhs[i] \notin Handles
                       /\ streams[files.fhs[i]].src = files.fp_list[i]
                       /\ \A j \in DOMAIN files.fp_list :
                              j # i => files.fhs[j] # files.fhs[i]
                  ELSE files.fhs[i] = files.fp_list[i].h

C5_Witness ==
    /\ files.yielded
    /\ Len(files.fp_list) = 3
    /\ IsString(files.fp_list[1])
    /\ files.fp_list[2] = files.fp_list[1]
    /\ files.fp_list[3].type = "stream"
    /\ files.fhs[1] # files.fhs[2]
    /\ files.fhs[3] = files.fp_list[3].h

C7_BytesResolvedLikeText ==
    \A s \in Scopes :
        (file[s].yielded /\ file[s].filepath_or.type = "bytes") =>
            streams[file[s].fh].kind =
                IF IsHttpUrl(file[s].filepath_or) THEN "BytesIO" ELSE "file"

\* C8: scopes of open_file do not interfere: two scopes over strings (the
\* same path or not) hold different streams, the stream of a scope stays
\* open and unclosed until that scope's own exit whatever the other scopes
\* do, and is closed once by that exit.
C8_ScopesIndependent ==
    /\ \A s, t \in Scopes :
           (s # t /\ OwnedScope(s) /\ OwnedScope(t)) => file[s].fh # file[t].fh
    /\ \A s \in Scopes :
           /\ (file[s].pc \in {"body", "exit"} /\ OwnedScope(s)) =>
                  ~streams[file[s].fh].closed /\ streams[file[s].fh].closes = 0
           /\ (file[s].pc = "done" /\ OwnedScope(s)) =>
                  streams[file[s].fh].closes = 1

C8_Witness ==
    \E s, t \in Scopes :
        /\ s # t
        /\ OwnedScope(s) /\ OwnedScope(t)
        /\ file[s].filepath_or = file[t].filepath_or
        /\ file[s].pc = "done" /\ streams[file[s].fh].closed
        /\ file[t].pc = "body" /\ ~streams[file[t].fh].closed

\* C9: the ownership flag is true exactly when the input is a text or byte
\* string, which is exactly when the stream was created by this call (a new
\* file or BytesIO object opened from the input); otherwise the stream is
\* the input itself and the flag is false.
C9_OwnershipIffCreated ==
    \A s \in Scopes :
        file[s].yielded =>
            /\ file[s].own_fh <=> IsString(file[s].filepath_or)
            /\ file[s].own_fh <=>
                   /\ file[s].fh \notin Handles
                   /\ streams[file[s].fh].kind \in {"file", "BytesIO"}
                   /\ streams[file[s].fh].src = file[s].filepath_or
            /\ ~file[s].own_fh => file[s].fh = file[s].filepath_or.h

C9_Witness ==
    \E s, t \in Scopes :
        /\ file[s].yielded /\ file[s].filepath_or.type = "bytes" /\ file[s].own_fh
        /\ file[t].yielded /\ file[t].filepath_or.type = "stream" /\ ~file[t].own_fh

\* C10 as stated: open_files over the empty list enters the scope with an
\* empty sequence of streams, raises nothing and closes nothing.
C10_EmptyListYieldsEmpty ==
    (files.pc \in {"body", "exit", "done"} /\ files.fp_list = << >>) =>
        /\ files.yielded
        /\ files.fhs = << >>
        /\ files.exc = "none"
        /\ files.closeLog = << >>

====
